---- MODULE Spec2Model ----
(***************************************************************************)
(* Model of src/UHI.js: the Landsat scene selection, the LST / NDVI / NDBI *)
(* band math, the urban / rural classification, the region means and the  *)
(* asynchronous construction of the statistics panel and console output.   *)
(*                                                                         *)
(* The script builds a deferred computation graph (lines 1-120) and then   *)
(* asks the backend for scalar values with evaluate() / print(); each      *)
(* callback runs later, on its own.  The graph nodes are operators over    *)
(* the inputs (archive, javaBounds); the callbacks are actions.            *)
(*                                                                         *)
(* Numbers: a raster or scalar value is an exact fraction [n, d].  Band    *)
(* values are Collection-2 digital numbers, 0 being the archive's fill     *)
(* value (a masked pixel).  The thermal band is carried already calibrated *)
(* (ST, in degrees Celsius): ST_B10 * 0.00341802 + 149.0 - 273.15 needs    *)
(* eight decimal digits on a 16-bit number, beyond TLC's 32-bit integers.  *)
(* The map layers, the histogram, the legend and the print of the scene    *)
(* count (lines 39-45, 59, 85-95, 201-273) show values and change none.    *)
(***************************************************************************)
EXTENDS Integers, Sequences, FiniteSets, TLC

(* ------------------------------ bounds -------------------------------- *)
NPix == 2          \* pixels of the grid in the full (asynchronous) runs
MaxScenes == 2     \* scenes in the archive
AggPix == 4        \* pixels of the grid in the aggregation runs
MaxDN == 2         \* largest surface-reflectance digital number

(* ------------------------- program constants -------------------------- *)
startDate == 20240601
endDate == 20240930
maxCloudCover == 20
NumCities == 5

VARIABLES
    archive,      \* the scenes the imagery archives hold (input)
    javaBounds,   \* the boundary on the grid: pixel -> coverage in halves (input)
    pc,           \* "init" before the script body ran, "ready" after it
    statsPanel,   \* the labels of the statistics panel, in order
    onMap,        \* TRUE once Map.add(statsPanel) ran
    urbanEval,    \* urbanTemp.get('LST').evaluate: "none", "pending", "resolved"
    ruralEval,    \* ruralTemp.get('LST').evaluate: "none", "pending", "resolved"
    uTemp,        \* the value the outer callback received
    rTemp,        \* the value the inner callback received
    thrown,       \* TRUE once a callback ended in an uncaught TypeError
    console,      \* city -> "pending" or the printed value
    run,          \* 1 on the first run of the script, 2 on the second
    prevOutputs   \* the outputs of the first run, kept for comparison

vars == <<archive, javaBounds, pc, statsPanel, onMap, urbanEval, ruralEval,
          uTemp, rTemp, thrown, console, run, prevOutputs>>

(* ------------------------- exact fractions ---------------------------- *)
Abs(x) == IF x < 0 THEN -x ELSE x

RECURSIVE GCD(_, _)
GCD(a, b) == IF b = 0 THEN a ELSE GCD(b, a % b)

Rat(n, d) == LET g == GCD(Abs(n), d) IN [n |-> n \div g, d |-> d \div g]
RAdd(a, b) == Rat(a.n * b.d + b.n * a.d, a.d * b.d)
RSub(a, b) == Rat(a.n * b.d - b.n * a.d, a.d * b.d)
RDivInt(a, k) == Rat(a.n, a.d * k)
RMulInt(a, k) == Rat(a.n * k, a.d)
RLt(a, b) == a.n * b.d < b.n * a.d
RLe(a, b) == a.n * b.d <= b.n * a.d

(* A value of the backend or of JavaScript: a number, null (a mean over no *)
(* pixel), undefined (the success argument of a failed evaluation) or NaN. *)
Num(r) == [t |-> "num", n |-> r.n, d |-> r.d]
Null == [t |-> "null", n |-> 0, d |-> 1]
Undefined == [t |-> "undefined", n |-> 0, d |-> 1]
NaN == [t |-> "NaN", n |-> 0, d |-> 1]
IsNum(v) == v.t = "num"
Frac(v) == [n |-> v.n, d |-> v.d]

(* A masked raster value, and a valid one. *)
Masked == [ok |-> FALSE, n |-> 0, d |-> 1]
Val(r) == [ok |-> TRUE, n |-> r.n, d |-> r.d]

(* ------------------------------ rasters ------------------------------- *)
(* An image: st is "ok", "nobands" (the reduction of an empty collection)  *)
(* or "error" (a node whose evaluation fails); px gives each pixel's value.*)
Grid == DOMAIN javaBounds
Zero == Val(Rat(0, 1))
One == Val(Rat(1, 1))
Blank == [p \in Grid |-> Masked]
Image(px) == [st |-> "ok", px |-> px]
NoBands == [st |-> "nobands", px |-> Blank]
Failed == [st |-> "error", px |-> Blank]

(* One band of a scene: digital number 0 is the fill value, masked. *)
select(image, band) ==
    [p \in Grid |-> LET dn == image.px[p][band]
                    IN  IF dn = 0 THEN Masked ELSE Val(Rat(dn, 1))]

(* --------------------------- Scene Loader ----------------------------- *)
ImageCollection(id) == SelectSeq(archive, LAMBDA s : s.collection = id)
merge(a, b) == a \o b
filterBounds(c) == SelectSeq(c, LAMBDA s : s.intersects)
\* Mutant: the end date is kept.
filterDateInclusive(c, from, to) ==
    SelectSeq(c, LAMBDA s : from <= s.date /\ s.date <= to)
filterDate(c, from, to) == SelectSeq(c, LAMBDA s : from <= s.date /\ s.date < to)
filterCloud(c) == SelectSeq(c, LAMBDA s : s.cloud < maxCloudCover)

landsat ==
    filterCloud(filterDate(filterBounds(
        merge(ImageCollection("LC08"), ImageCollection("LC09"))),
        startDate, endDate))

(* -------------------------- Band Transformer -------------------------- *)
calculateLST(image) == select(image, "ST")

lstCollection == [i \in 1..Len(landsat) |-> calculateLST(landsat[i])]

RECURSIVE SumValid(_, _)
SumValid(vals, k) ==
    IF k = 0 THEN Rat(0, 1)
    ELSE IF vals[k].ok THEN RAdd(SumValid(vals, k - 1), vals[k])
         ELSE SumValid(vals, k - 1)

ValidIdx(vals) == {i \in DOMAIN vals : vals[i].ok}

(* ee.Reducer.mean over the values of one pixel across a collection. *)
MeanReducer(vals) ==
    LET m == Cardinality(ValidIdx(vals))
    IN  IF m = 0 THEN Masked ELSE Val(RDivInt(SumValid(vals, Len(vals)), m))

(* The k-th smallest valid value of vals. *)
Kth(vals, k) ==
    LET I == ValidIdx(vals)
    IN  Frac(vals[CHOOSE j \in I :
                 /\ Cardinality({i \in I : RLt(vals[i], vals[j])}) < k
                 /\ Cardinality({i \in I : RLe(vals[i], vals[j])}) >= k])

(* ee.Reducer.median: the middle value, or the mean of the two middle ones. *)
MedianReducer(vals) ==
    LET m == Cardinality(ValidIdx(vals))
    IN  IF m = 0 THEN Masked
        ELSE IF m % 2 = 1 THEN Val(Kth(vals, (m + 1) \div 2))
        ELSE Val(RDivInt(RAdd(Kth(vals, m \div 2), Kth(vals, m \div 2 + 1)), 2))

Across(coll, band, p) == [i \in 1..Len(coll) |-> select(coll[i], band)[p]]

clip(image, geometry) ==
    [image EXCEPT !.px = [p \in Grid |-> IF p \in DOMAIN geometry THEN image.px[p]
                                          ELSE Masked]]

lstMean ==
    LET coll == lstCollection
    IN  IF Len(coll) = 0 THEN NoBands
        ELSE clip(Image([p \in Grid |->
                      MeanReducer([i \in 1..Len(coll) |-> coll[i][p]])]),
                  javaBounds)

(* landsat.median(): one band at a time. *)
median(band) ==
    LET coll == landsat
    IN  IF Len(coll) = 0 THEN NoBands
        ELSE Image([p \in Grid |-> MedianReducer(Across(coll, band, p))])

(* (a - b) / (a + b); masked where an input is masked or negative, or the  *)
(* sum is zero (no valid digital number is 0, so the sum of two valid ones *)
(* never is).  A band the image does not have fails the node.              *)
NormDiffPixel(a, b) ==
    IF ~a.ok \/ ~b.ok THEN Masked
    ELSE IF a.n < 0 \/ b.n < 0 THEN Masked
    ELSE LET s == RAdd(a, b)
             t == RSub(a, b)
         IN  IF s.n = 0 THEN Masked ELSE Val(Rat(t.n * s.d, t.d * s.n))

normalizedDifference(a, b) ==
    IF a.st # "ok" \/ b.st # "ok" THEN Failed
    ELSE Image([p \in Grid |-> LET x == a.px[p]
                                    y == b.px[p]
                                IN  NormDiffPixel(x, y)])

\* Mutant: the two bands in the other order.
ndviSwapped == normalizedDifference(median("B4"), median("B5"))
ndvi == normalizedDifference(median("B5"), median("B4"))
ndbi == normalizedDifference(median("B6"), median("B5"))

(* ----------------------------- Classifier ----------------------------- *)
ndbiUrbanMin == Rat(1, 10)
ndviUrbanMax == Rat(2, 10)
ndviRuralMin == Rat(3, 10)
ndbiRuralMax == Rat(-1, 10)

PerPixel(image, F(_)) ==
    IF image.st # "ok" THEN Failed
    ELSE Image([p \in Grid |-> LET v == image.px[p]
                                IN  IF v.ok THEN F(v) ELSE Masked])

gt(image, c) == PerPixel(image, LAMBDA v : IF RLt(c, v) THEN One ELSE Zero)
lt(image, c) == PerPixel(image, LAMBDA v : IF RLt(v, c) THEN One ELSE Zero)
selfMask(image) == PerPixel(image, LAMBDA v : IF v.n = 0 THEN Masked ELSE v)

and(a, b) ==
    IF a.st # "ok" \/ b.st # "ok" THEN Failed
    ELSE Image([p \in Grid |->
             LET x == a.px[p]
                 y == b.px[p]
             IN  IF ~x.ok \/ ~y.ok THEN Masked
                 ELSE IF x.n # 0 /\ y.n # 0 THEN One ELSE Zero])

updateMask(image, mask) ==
    IF image.st = "error" \/ mask.st # "ok" THEN Failed
    ELSE [image EXCEPT !.px = [p \in Grid |->
             LET m == mask.px[p]
             IN  IF m.ok /\ m.n # 0 THEN image.px[p] ELSE Masked]]

urbanMask == selfMask(and(gt(ndbi, ndbiUrbanMin), lt(ndvi, ndviUrbanMax)))
\* Mutant: the two comparisons turned round.
ruralMaskFlipped == and(lt(ndvi, ndviRuralMin), gt(ndbi, ndbiRuralMax))
ruralMask == and(gt(ndvi, ndviRuralMin), lt(ndbi, ndbiRuralMax))

(* ----------------------------- Aggregator ----------------------------- *)
(* maxPixels is 1e13, a 14-digit number; a request fails when the pixels   *)
(* of its region outnumber it.                                             *)
maxPixelsDigits == 14

RECURSIVE Digits(_)
Digits(k) == IF k < 10 THEN 1 ELSE 1 + Digits(k \div 10)

TooManyPixels(geometry) == Digits(Cardinality(DOMAIN geometry)) > maxPixelsDigits

RECURSIVE WeightedSum(_, _, _)
WeightedSum(image, geometry, P) ==
    IF P = {} THEN Rat(0, 1)
    ELSE LET p == CHOOSE q \in P : TRUE
         IN  RAdd(RMulInt(image.px[p], geometry[p]),
                  WeightedSum(image, geometry, P \ {p}))

RECURSIVE WeightSum(_, _)
WeightSum(geometry, P) ==
    IF P = {} THEN 0
    ELSE LET p == CHOOSE q \in P : TRUE
         IN  geometry[p] + WeightSum(geometry, P \ {p})

ValidIn(image, geometry) == {p \in DOMAIN geometry : image.px[p].ok}

(* reduceRegion with ee.Reducer.mean, then get('LST'): the mean of the     *)
(* valid pixels of the region, each weighted by the part of it the region  *)
(* covers; null when the region holds no valid pixel.  fail marks a value  *)
(* whose evaluation ends in an error: a failed input node, more pixels     *)
(* than maxPixels, or no band 'LST' in the dictionary.                     *)
reduceRegion(image, geometry) ==
    IF image.st # "ok" \/ TooManyPixels(geometry) THEN [fail |-> TRUE, v |-> Null]
    ELSE LET V == ValidIn(image, geometry)
         IN  IF V = {} THEN [fail |-> FALSE, v |-> Null]
             ELSE [fail |-> FALSE,
                   v |-> Num(RDivInt(WeightedSum(image, geometry, V),
                                     WeightSum(geometry, V)))]

urbanLST == updateMask(lstMean, urbanMask)
urbanTemp == reduceRegion(urbanLST, javaBounds)
ruralLST == updateMask(lstMean, ruralMask)
ruralTemp == reduceRegion(ruralLST, javaBounds)

Cities == 1..NumCities

(* The 10 km buffer of a city on the grid: one pixel, or two neighbouring   *)
(* ones, whole.                                                            *)
buffer(c) ==
    LET k == Cardinality(Grid)
    IN  [p \in {q \in Grid : q = ((c - 1) % k) + 1 \/ (c > k /\ q = (c % k) + 1)}
            |-> 2]

cityLST(c) == reduceRegion(lstMean, buffer(c))

(* evaluate(callback): the callback's first argument, undefined on failure. *)
evaluate(obj) == IF obj.fail THEN Undefined ELSE obj.v

(* --------------------------- the callbacks ---------------------------- *)
ToNumber(v) ==
    IF v.t = "null" THEN Num(Rat(0, 1))
    ELSE IF v.t = "undefined" THEN NaN
    ELSE v

\* Mutant: the operands in the other order.
MinusSwapped(a, b) ==
    IF ~IsNum(ToNumber(a)) \/ ~IsNum(ToNumber(b)) THEN NaN
    ELSE Num(RSub(ToNumber(b), ToNumber(a)))

Minus(a, b) ==
    IF ~IsNum(ToNumber(a)) \/ ~IsNum(ToNumber(b)) THEN NaN
    ELSE Num(RSub(ToNumber(a), ToNumber(b)))

(* Number.prototype.toFixed(2), as a count of hundredths: the nearest one, *)
(* the larger in magnitude on a tie; "NaN" for NaN.                        *)
toFixed(v) ==
    IF ~IsNum(v) THEN [nan |-> TRUE, h |-> 0]
    ELSE LET q == (2 * 100 * Abs(v.n) + v.d) \div (2 * v.d)
         IN  [nan |-> FALSE, h |-> IF v.n < 0 THEN -q ELSE q]

Label(kind) == [k |-> kind, nan |-> FALSE, h |-> 0]
ValueLabel(kind, f) == [k |-> kind, nan |-> f.nan, h |-> f.h]

(* v.toFixed throws a TypeError when v is null or undefined. *)
Throws(v) == v.t = "null" \/ v.t = "undefined"

\* Mutant: the rural mean is appended before the urban mean.
CallbackLabelsRuralFirst(u, r) ==
    LET uhi == toFixed(Minus(u, r))
        head == <<Label("periodHeading"), Label("period"), Label("rule"),
                  Label("ruralHeading")>>
        mid == <<ValueLabel("ruralValue", toFixed(r)), Label("urbanHeading")>>
        tail == <<ValueLabel("urbanValue", toFixed(u)), Label("rule"),
                  Label("uhiHeading"), ValueLabel("uhiValue", uhi),
                  ValueLabel("uhiNote", uhi)>>
    IN  IF Throws(r) THEN head
        ELSE IF Throws(u) THEN head \o mid
        ELSE head \o mid \o tail

(* The labels the inner callback appends before it returns or throws. *)
CallbackLabels(u, r) ==
    LET uhi == toFixed(Minus(u, r))
        head == <<Label("periodHeading"), Label("period"), Label("rule"),
                  Label("urbanHeading")>>
        mid == <<ValueLabel("urbanValue", toFixed(u)), Label("ruralHeading")>>
        tail == <<ValueLabel("ruralValue", toFixed(r)), Label("rule"),
                  Label("uhiHeading"), ValueLabel("uhiValue", uhi),
                  ValueLabel("uhiNote", uhi)>>
    IN  IF Throws(u) THEN head
        ELSE IF Throws(r) THEN head \o mid
        ELSE head \o mid \o tail

CallbackThrows(u, r) == Throws(u) \/ Throws(r)

(* ------------------------------ actions ------------------------------- *)
Pending == [t |-> "pending", n |-> 0, d |-> 1]
Unset == [t |-> "unset", n |-> 0, d |-> 1]
NoOutputs == [panel |-> <<>>, console |-> [c \in Cities |-> Unset]]

(* What a run shows: the panel's labels and the console's city lines. *)
Outputs == [panel |-> statsPanel, console |-> console]

(* The state before the script body runs, on inputs a and b. *)
Fresh ==
    /\ pc = "init"
    /\ statsPanel = <<>>
    /\ onMap = FALSE
    /\ urbanEval = "none"
    /\ ruralEval = "none"
    /\ uTemp = Unset
    /\ rTemp = Unset
    /\ thrown = FALSE
    /\ console = [c \in Cities |-> Unset]

(* Lines 1-273, run to the end: the graph is built, the prints of the city *)
(* means and the urban evaluation are requested, the panel gets its title  *)
(* and is added to the map.  No callback has run yet.                      *)
RunScript ==
    /\ pc = "init"
    /\ pc' = "ready"
    /\ console' = [c \in Cities |-> Pending]
    /\ statsPanel' = <<Label("title")>>
    /\ urbanEval' = "pending"
    /\ onMap' = TRUE
    /\ UNCHANGED <<archive, javaBounds, ruralEval, uTemp, rTemp, thrown, run,
                   prevOutputs>>

(* Line 145: the outer callback receives the urban mean and requests the   *)
(* rural one.                                                              *)
UrbanResolved ==
    /\ urbanEval = "pending"
    /\ urbanEval' = "resolved"
    /\ uTemp' = evaluate(urbanTemp)
    /\ ruralEval' = "pending"
    /\ UNCHANGED <<archive, javaBounds, pc, statsPanel, onMap, rTemp, thrown,
                   console, run, prevOutputs>>

(* Lines 146-196: the inner callback receives the rural mean and appends   *)
(* the labels, up to the first toFixed that throws.                        *)
RuralResolved ==
    /\ ruralEval = "pending"
    /\ ruralEval' = "resolved"
    /\ rTemp' = evaluate(ruralTemp)
    /\ statsPanel' = statsPanel \o CallbackLabels(uTemp, rTemp')
    /\ thrown' = CallbackThrows(uTemp, rTemp')
    /\ UNCHANGED <<archive, javaBounds, pc, onMap, urbanEval, uTemp, console,
                   run, prevOutputs>>

\* Mutant: the console lists the answers in the order they arrive.
CityResolvedArrival(c) ==
    /\ pc = "ready"
    /\ console[c] = Pending
    /\ LET k == Cardinality({b \in Cities : console[b] # Pending}) + 1
       IN  console' = [console EXCEPT ![k] = evaluate(cityLST(c))]
    /\ UNCHANGED <<archive, javaBounds, pc, statsPanel, onMap, urbanEval,
                   ruralEval, uTemp, rTemp, thrown, run, prevOutputs>>

(* Line 119: the console shows a city's mean, or the error of its          *)
(* evaluation, once the backend has answered.                              *)
CityResolved(c) ==
    /\ pc = "ready"
    /\ console[c] = Pending
    /\ console' = [console EXCEPT ![c] = evaluate(cityLST(c))]
    /\ UNCHANGED <<archive, javaBounds, pc, statsPanel, onMap, urbanEval,
                   ruralEval, uTemp, rTemp, thrown, run, prevOutputs>>

Settled ==
    /\ pc = "ready"
    /\ ruralEval = "resolved"
    /\ \A c \in Cities : console[c] # Pending

(* The script is run a second time on the same inputs: the editor clears   *)
(* the console and the map, and the script builds everything anew.         *)
Rerun ==
    /\ run = 1
    /\ Settled
    /\ run' = 2
    /\ prevOutputs' = Outputs
    /\ pc' = "init"
    /\ statsPanel' = <<>>
    /\ onMap' = FALSE
    /\ urbanEval' = "none"
    /\ ruralEval' = "none"
    /\ uTemp' = Unset
    /\ rTemp' = Unset
    /\ thrown' = FALSE
    /\ console' = [c \in Cities |-> Unset]
    /\ UNCHANGED <<archive, javaBounds>>

NextPanel == RunScript \/ UrbanResolved \/ RuralResolved

Next ==
    \/ RunScript
    \/ UrbanResolved
    \/ RuralResolved
    \/ \E c \in Cities : CityResolved(c)
    \/ Rerun

(* ------------------------------ inputs -------------------------------- *)
Px(st, b4, b5, b6) == [ST |-> st, B4 |-> b4, B5 |-> b5, B6 |-> b6]
Urban(st) == Px(st, 1, 1, 2)       \* NDVI 0, NDBI 1/3
Rural(st) == Px(st, 1, 2, 1)       \* NDVI 1/3, NDBI -1/3
Neither(st) == Px(st, 1, 1, 1)     \* NDVI 0, NDBI 0
FillPx == Px(0, 0, 0, 0)

Scene(coll, date, cloud, inter, px) ==
    [collection |-> coll, date |-> date, cloud |-> cloud, intersects |-> inter,
     px |-> px]
GoodScene(px) == Scene("LC08", startDate, 0, TRUE, px)

SeqsUpTo(S, lo, hi) == UNION {[1..k -> S] : k \in lo..hi}

(* A boundary covering every pixel, and one whose first pixel is an edge   *)
(* pixel, half inside.                                                     *)
Boundaries(k) == {[p \in 1..k |-> 2], [p \in 1..k |-> IF p = 1 THEN 1 ELSE 2]}

Start(a, b) ==
    /\ archive = a
    /\ javaBounds = b
    /\ Fresh
    /\ run = 1
    /\ prevOutputs = NoOutputs

(* Full runs: whole scenes of a few kinds, and one too cloudy to be used. *)
Mixed == [p \in 1..NPix |-> IF p % 2 = 1 THEN Urban(30) ELSE Rural(24)]
OnlyUrban == [p \in 1..NPix |-> IF p % 2 = 1 THEN Urban(34) ELSE FillPx]
OnlyRural == [p \in 1..NPix |-> IF p % 2 = 1 THEN FillPx ELSE Rural(26)]
Bare == [p \in 1..NPix |-> Neither(28)]
SceneKinds ==
    {GoodScene(t) : t \in {Mixed, OnlyUrban, OnlyRural, Bare}}
        \cup {Scene("LC09", startDate, maxCloudCover, TRUE, Mixed)}

Init ==
    \E a \in SeqsUpTo(SceneKinds, 0, MaxScenes), b \in Boundaries(NPix) : Start(a, b)

Spec == Init /\ [][Next]_vars

(* Aggregation runs: one scene, every assignment of pixel kinds. *)
AggKinds ==
    {Urban(26), Urban(30), Urban(34), Rural(24), Rural(26), Rural(30),
     Neither(28), FillPx}

InitAgg ==
    \E px \in [1..AggPix -> AggKinds], b \in Boundaries(AggPix) :
        Start(<<GoodScene(px)>>, b)

SpecAgg == InitAgg /\ [][NextPanel]_vars

(* Index runs: one pixel, every digital number of the three bands.  The   *)
(* reducers do not depend on the order of the scenes, so the scenes are    *)
(* taken in one order only.                                                *)
DNs == 0..MaxDN
Key(s) == (s.px[1].B4 * (MaxDN + 1) + s.px[1].B5) * (MaxDN + 1) + s.px[1].B6
Ordered(a) == \A i \in 1..(Len(a) - 1) : Key(a[i]) <= Key(a[i + 1])

InitPixel ==
    \E a \in SeqsUpTo({GoodScene([p \in 1..1 |-> Px(30, b4, b5, b6)]) :
                           b4 \in DNs, b5 \in DNs, b6 \in DNs}, 1, MaxScenes) :
        /\ Ordered(a)
        /\ Start(a, [p \in 1..1 |-> 2])

SpecPixel == InitPixel /\ [][NextPanel]_vars

(* Loader runs: every metadata of the scenes, around each filter's edge. *)
Metadata ==
    {Scene(coll, date, cloud, inter, Mixed) :
        coll \in {"LC08", "LC09", "LE07"},
        date \in {20240531, 20240601, 20240929, 20240930},
        cloud \in {maxCloudCover - 1, maxCloudCover},
        inter \in BOOLEAN}

InitLoader ==
    \E a \in SeqsUpTo(Metadata, 0, MaxScenes) : Start(a, [p \in 1..NPix |-> 2])

SpecLoader == InitLoader /\ [][NextPanel]_vars

(* ======================= properties of the code ======================= *)
Done == ruralEval = "resolved"
PanelKinds == [i \in DOMAIN statsPanel |-> statsPanel[i].k]
Shown(kind) == {i \in DOMAIN statsPanel : statsPanel[i].k = kind}
ShownAs(kind, nan, h) ==
    \E i \in Shown(kind) : statsPanel[i].nan = nan /\ statsPanel[i].h = h
ShownUndefined(kind) == \E i \in Shown(kind) : statsPanel[i].nan

(* The classes and the region means, written from their definitions. *)
IsUrban(p) ==
    /\ Len(landsat) > 0
    /\ LET v == ndvi.px[p]
           b == ndbi.px[p]
       IN  v.ok /\ b.ok /\ RLt(Rat(1, 10), b) /\ RLt(v, Rat(2, 10))
IsRural(p) ==
    /\ Len(landsat) > 0
    /\ LET v == ndvi.px[p]
           b == ndbi.px[p]
       IN  v.ok /\ b.ok /\ RLt(Rat(3, 10), v) /\ RLt(b, Rat(-1, 10))
HasLST(p) == Len(landsat) > 0 /\ lstMean.px[p].ok
UrbanPixels == {p \in Grid : IsUrban(p) /\ HasLST(p)}
RuralPixels == {p \in Grid : IsRural(p) /\ HasLST(p)}

RECURSIVE AreaSum(_, _)
AreaSum(P, k) ==
    IF k = 0 THEN [s |-> Rat(0, 1), w |-> 0]
    ELSE LET r == AreaSum(P, k - 1)
         IN  IF k \in P
             THEN [s |-> RAdd(r.s, RMulInt(lstMean.px[k], javaBounds[k])),
                   w |-> r.w + javaBounds[k]]
             ELSE r
AreaMean(P) == LET r == AreaSum(P, Cardinality(Grid)) IN RDivInt(r.s, r.w)
MeanDifference(U, R) == RSub(AreaMean(U), AreaMean(R))

(* h hundredths is x rounded to two decimals, a tie going away from zero. *)
RoundsTo(x, h) ==
    LET e == 2 * Abs(100 * x.n - h * x.d)
    IN  e <= x.d /\ (e = x.d => Abs(h) * x.d > 100 * Abs(x.n))

(* C1, as claimed: once both callbacks have run on an urban and a rural    *)
(* mean that are both defined, the UHI intensity shown on the panel equals *)
(* the urban region mean minus the rural region mean.                      *)
C1_ExactDifference ==
    Done =>
        LET U == UrbanPixels
            R == RuralPixels
        IN  (U # {} /\ R # {}) =>
                LET x == MeanDifference(U, R)
                IN  \E i \in Shown("uhiValue") :
                        /\ ~statsPanel[i].nan
                        /\ Rat(statsPanel[i].h, 100) = x

(* C1, amended: once both callbacks have run on an urban and a rural mean  *)
(* that are both defined, the UHI intensity shown on the panel is the      *)
(* area-weighted urban mean minus the area-weighted rural mean, rounded to *)
(* two decimals (toFixed(2)).                                              *)
C1_RoundedDifference ==
    Done =>
        LET U == UrbanPixels
            R == RuralPixels
        IN  (U # {} /\ R # {}) =>
                LET x == MeanDifference(U, R)
                IN  \E i \in Shown("uhiValue") :
                        /\ ~statsPanel[i].nan
                        /\ RoundsTo(x, statsPanel[i].h)

(* The spec's example: urban {30, 34}, rural {24, 26}: 32, 25 and 7.00. *)
C1_Witness ==
    /\ Done
    /\ archive = <<GoodScene(<<Urban(30), Urban(34), Rural(24), Rural(26)>>)>>
    /\ javaBounds = [p \in 1..4 |-> 2]
    /\ ShownAs("urbanValue", FALSE, 3200)
    /\ ShownAs("ruralValue", FALSE, 2500)
    /\ ShownAs("uhiValue", FALSE, 700)

(* Membership of a pixel in a mask: the mask is valid there and not 0. *)
InUrbanMask(p) ==
    Len(landsat) > 0 /\ LET m == urbanMask.px[p] IN m.ok /\ m.n # 0
InRuralMask(p) ==
    Len(landsat) > 0 /\ LET m == ruralMask.px[p] IN m.ok /\ m.n # 0

(* C2: once the script has built the masks, no pixel is in both the urban  *)
(* mask and the rural mask.                                                *)
C2_MasksDisjoint ==
    pc = "ready" => \A p \in Grid : ~(InUrbanMask(p) /\ InRuralMask(p))

(* Two scenes whose median puts the pixel in the urban mask alone. *)
C2_Witness ==
    /\ pc = "ready"
    /\ Len(landsat) = 2
    /\ InUrbanMask(1)
    /\ ~InRuralMask(1)

(* A scene of Landsat 8 or 9 over the boundary, from 2024-06-01 up to but  *)
(* not including 2024-09-30, under 20 % cloud cover.                       *)
Qualifies(s) ==
    /\ s.collection \in {"LC08", "LC09"}
    /\ s.intersects
    /\ 20240601 <= s.date /\ s.date < 20240930
    /\ s.cloud < 20

(* C7: the collection holds exactly the scenes of the two archives whose   *)
(* footprint meets the boundary, whose date is in [startDate, endDate)     *)
(* and whose cloud cover is below 20: each as often as the archives hold   *)
(* it, and no other.                                                       *)
C7_LoaderExact ==
    pc = "ready" =>
        /\ \A j \in DOMAIN landsat : Qualifies(landsat[j])
        /\ \A s \in {archive[i] : i \in DOMAIN archive} :
               Cardinality({j \in DOMAIN landsat : landsat[j] = s})
                   = IF Qualifies(s)
                     THEN Cardinality({i \in DOMAIN archive : archive[i] = s})
                     ELSE 0

(* A scene of the last day kept, one of the end date dropped. *)
C7_Witness ==
    /\ pc = "ready"
    /\ Len(archive) = 2
    /\ archive[1].date = 20240929 /\ Qualifies(archive[1])
    /\ archive[2].date = 20240930 /\ archive[2].cloud = 19
    /\ archive[2].intersects /\ archive[2].collection = "LC09"
    /\ landsat = <<archive[1]>>

(* v is (a - b) / (a + b), and lies in [-1, 1]. *)
IsNormDiff(v, a, b) ==
    /\ a.ok /\ b.ok
    /\ LET s == RAdd(a, b)
       IN  s.n # 0 /\ Rat(v.n * s.n, v.d * s.d) = RSub(a, b)
    /\ -v.d <= v.n /\ v.n <= v.d

C3_EmptyReportedUndefined ==
    (Settled /\ Len(landsat) = 0) =>
        /\ ShownUndefined("urbanValue")
        /\ ShownUndefined("ruralValue")
        /\ ShownUndefined("uhiValue")
        /\ \A c \in Cities : console[c] = Undefined

(* C4, as claimed: when exactly one of the two region means is undefined,  *)
(* the panel reports the UHI intensity as undefined, and never as the      *)
(* other mean or its negation.                                             *)
C4_OneMeanMissing ==
    (Done /\ Len(landsat) > 0 /\ ((UrbanPixels = {}) # (RuralPixels = {}))) =>
        /\ ShownUndefined("uhiValue")
        /\ \A i \in Shown("uhiValue") : statsPanel[i].nan

(* C5, as claimed: a statistic that is defined is reported whatever became *)
(* of the others: a defined rural mean is shown when the urban mean is     *)
(* undefined, a defined urban mean when the rural mean is undefined, and a *)
(* defined city mean is printed.                                           *)
C5_FailureLocal ==
    Settled =>
        /\ IsNum(rTemp) => Shown("ruralValue") # {}
        /\ IsNum(uTemp) => Shown("urbanValue") # {}
        /\ \A c \in Cities : IsNum(cityLST(c).v) => IsNum(console[c])

(* C9: when a second run on the same inputs has finished, its panel and    *)
(* its console equal those of the first run, whatever the order in which   *)
(* the evaluations of either run were answered.                            *)
C9_SecondRunSame == (run = 2 /\ Settled) => Outputs = prevOutputs

(* A second run that ended with a full panel and a numeric city mean. *)
C9_Witness ==
    /\ run = 2
    /\ Settled
    /\ Shown("uhiValue") # {}
    /\ IsNum(console[1])
    /\ IsNum(console[2])
    /\ console[1] # console[2]

FullOrder ==
    <<"title", "periodHeading", "period", "rule", "urbanHeading", "urbanValue",
      "ruralHeading", "ruralValue", "rule", "uhiHeading", "uhiValue", "uhiNote">>

(* C10: the panel is on the map with its title alone until the inner       *)
(* callback runs; the rural evaluation is requested only after the urban   *)
(* one was answered; labels are appended only after both were answered;    *)
(* and the panel is always a prefix of title, analysis period, urban mean, *)
(* rural mean, UHI intensity.                                              *)
C10_PanelOrder ==
    /\ (pc = "ready" /\ ~Done) => (onMap /\ PanelKinds = <<"title">>)
    /\ ruralEval # "none" => urbanEval = "resolved"
    /\ Len(statsPanel) > 1 => (urbanEval = "resolved" /\ ruralEval = "resolved")
    /\ Len(statsPanel) <= Len(FullOrder)
    /\ PanelKinds = SubSeq(FullOrder, 1, Len(statsPanel))

(* Both callbacks have run and the panel holds every label. *)
C10_Witness ==
    /\ Done
    /\ ~thrown
    /\ onMap
    /\ PanelKinds = FullOrder
====
